---- MODULE Spec2Model ----
(***************************************************************************)
(* The two transaction-observing plugins of the editor: the word-count     *)
(* plugin (src/src/plugin-word-count.ts), which measures the document and  *)
(* filters transactions against a limit, and the table-of-contents plugin  *)
(* (src/src/plugin-toc.ts), which extracts the top-level headings and      *)
(* renders an outline panel.                                               *)
(*                                                                         *)
(* A document is a sequence of text blocks (paragraph or heading), each    *)
(* optionally the only child of a blockquote.  The inline content of a     *)
(* text block is a sequence of atoms: the text character "a" or the inline *)
(* leaf node "img".  Positions are the editor framework's token positions: *)
(* one per opening token, closing token, character and leaf.               *)
(***************************************************************************)
EXTENDS Integers, Sequences, FiniteSets, TLC

\* ---- bounds of the model ------------------------------------------------
MaxBlocks == 2
MaxAtoms == 3

\* ---- helpers ------------------------------------------------------------
RECURSIVE SumLen(_)
SumLen(blocks) ==
    IF blocks = <<>> THEN 0
    ELSE Len(Head(blocks).content) + SumLen(Tail(blocks))

\* The model explores documents of at most MaxBlocks blocks and MaxAtoms atoms.
Bounded(d) == Len(d) >= 1 /\ Len(d) <= MaxBlocks /\ SumLen(d) <= MaxAtoms

Para(c) == [type |-> "paragraph", level |-> 0, id |-> "", quoted |-> FALSE, content |-> c]

Heading(lv, i, c) == [type |-> "heading", level |-> lv, id |-> i, quoted |-> FALSE, content |-> c]

Quote(b) == [b EXCEPT !.quoted = TRUE]

\* schema.nodes.heading.attrs.id.default: getRandomId() is evaluated once,
\* when the schema is built, so every heading created without an explicit id
\* carries this one value.
DefaultId == "idD"

\* attrs.id of a heading whose schema declares no id: undefined, which as a
\* key of renderList and in dataset.id reads "undefined".
Undefined == "undefined"

\* The id a heading gets when the attrs it is created with carry none.
DefaultIdOf(sch) == IF sch = "utils" THEN DefaultId ELSE Undefined

\* ---- the size metric (class WordCount) ------------------------------------

\* Node.nodeSize: a leaf or a character counts 1, any other node 2 plus its content.
BlockSize(b) == (IF b.quoted THEN 2 ELSE 0) + 2 + Len(b.content)

RECURSIVE ContentSize(_)
ContentSize(blocks) ==
    IF blocks = <<>> THEN 0
    ELSE BlockSize(Head(blocks)) + ContentSize(Tail(blocks))

nodeSize(node) == 2 + ContentSize(node)

\* The text of one inline atom: a character is itself, a leaf is leafText.
AtomText(a, leafText) == IF a = "img" THEN leafText ELSE <<a>>

RECURSIVE InlineText(_, _)
InlineText(content, leafText) ==
    IF content = <<>> THEN <<>>
    ELSE AtomText(Head(content), leafText) \o InlineText(Tail(content), leafText)

RECURSIVE TextFrom(_, _, _, _)
TextFrom(node, k, blockSeparator, leafText) ==
    IF k > Len(node) THEN <<>>
    ELSE (IF k > 1 THEN blockSeparator ELSE <<>>)
         \o InlineText(node[k].content, leafText)
         \o TextFrom(node, k + 1, blockSeparator, leafText)

\* node.textBetween(0, node.content.size, blockSeparator, leafText); an
\* undefined blockSeparator is the empty string <<>>.
textBetween(node, blockSeparator, leafText) == TextFrom(node, 1, blockSeparator, leafText)

\* A variant of characters with a block separator, as words has it.
charactersSep(opts, node) ==
    IF opts.mode = "textSize"
    THEN Len(textBetween(node, <<" ">>, <<" ">>))
    ELSE nodeSize(node)

characters(opts, node) ==
    IF opts.mode = "textSize"
    THEN Len(textBetween(node, <<>>, <<" ">>))
    ELSE nodeSize(node)

words(node) ==
    LET text == textBetween(node, <<" ">>, <<" ">>)
    IN  Cardinality({k \in 1..Len(text) :
                       text[k] # " " /\ (k = 1 \/ text[k - 1] = " ")})

calcStorage(opts, node) == [characters |-> characters(opts, node), words |-> words(node)]

\* ---- positions and the trim (Transaction.deleteRange) -----------------------

\* Position just before top-level node k.
Before(node, k) == ContentSize(SubSeq(node, 1, k - 1))

\* Positions of the start and the end of the inline content of text block k.
Start(node, k) == Before(node, k) + 1 + (IF node[k].quoted THEN 1 ELSE 0)

End(node, k) == Start(node, k) + Len(node[k].content)

InlineAt(node, pos) == {k \in 1..Len(node) : Start(node, k) <= pos /\ pos <= End(node, k)}

TopAt(node, pos) == {k \in 1..Len(node) : Before(node, k) = pos}

\* doc.resolve(pos), for the positions a trim can name: inside the inline
\* content of text block blk at offset off, or between two top-level nodes,
\* just before node blk.
Resolve(node, pos) ==
    IF InlineAt(node, pos) # {}
    THEN LET k == CHOOSE k \in InlineAt(node, pos) : TRUE
         IN  [inline |-> TRUE, blk |-> k, off |-> pos - Start(node, k)]
    ELSE LET k == CHOOSE k \in TopAt(node, pos) : TRUE
         IN  [inline |-> FALSE, blk |-> k, off |-> 0]

Prefix(c, n) == SubSeq(c, 1, n)

Suffix(c, n) == SubSeq(c, n + 1, Len(c))

\* Blocks 1..i-1, then the block b, then blocks j+1.. of the document.
Splice(node, i, j, b) == SubSeq(node, 1, i - 1) \o b \o SubSeq(node, j + 1, Len(node))

\* transaction.deleteRange(from, to) on the transaction's document.
\*  - both ends in one text block: the atoms between them go;
\*  - from at the start of block i, to inside (not at the end of) a later
\*    block j: the framework widens the range to start before block i, so
\*    blocks i..j-1 go and block j keeps its type with what follows to;
\*  - otherwise, ends in two text blocks: the blocks are joined into one
\*    block of the first one's type;
\*  - from between two top-level nodes, to inside block j: the blocks from
\*    from up to j-1 go; block j is dropped whole when to is at its end, and
\*    is otherwise re-opened around what follows to.
deleteRange(node, from, to) ==
    LET f == Resolve(node, from)
        t == Resolve(node, to)
        i == f.blk
        j == t.blk
        rest == Suffix(node[j].content, t.off)
    IN  IF f.inline /\ i = j
        THEN Splice(node, i, i,
                    <<[node[i] EXCEPT !.content = Prefix(node[i].content, f.off) \o rest]>>)
        ELSE IF f.inline /\ f.off = 0 /\ t.off < Len(node[j].content)
        THEN Splice(node, i, j, <<[node[j] EXCEPT !.content = rest]>>)
        ELSE IF f.inline
        THEN Splice(node, i, j,
                    <<[node[i] EXCEPT !.content = Prefix(node[i].content, f.off) \o rest]>>)
        ELSE IF t.off = Len(node[j].content)
        THEN Splice(node, i, j, <<>>)
        ELSE Splice(node, i, j, <<[node[j] EXCEPT !.content = rest]>>)

\* ---- the outline (class Toc) ----------------------------------------------

\* node.textContent: the text of the node, leaves contributing nothing.
textContent(b) == InlineText(b.content, <<>>)

\* A variant of the filter that lets a heading without text through.
IsTocHeadingAny(b) == ~b.quoted /\ b.type = "heading"

\* The filter of updateToc: a direct child of the document that is a heading
\* with a non-empty text.  A quoted block is a child of a blockquote; the
\* document's direct child is then the blockquote.
IsTocHeading(b) == ~b.quoted /\ b.type = "heading" /\ textContent(b) # <<>>

Member(s, x) == \E k \in 1..Len(s) : s[k] = x

RECURSIVE GradeTypeOf(_, _)
GradeTypeOf(hs, seen) ==
    IF hs = <<>> THEN seen
    ELSE GradeTypeOf(Tail(hs),
                     IF Member(seen, Head(hs).level) THEN seen
                     ELSE Append(seen, Head(hs).level))

\* A variant of updateToc that pushes the level of every heading, seen
\* before or not.
updateTocAll(node) ==
    LET hs == SelectSeq(node, IsTocHeading)
    IN  [gradeType |-> [k \in 1..Len(hs) |-> hs[k].level],
         headingMatches |->
            [k \in 1..Len(hs) |->
                [textContent |-> textContent(hs[k]), level |-> hs[k].level, id |-> hs[k].id]]]

updateToc(node) ==
    LET hs == SelectSeq(node, IsTocHeading)
    IN  [gradeType |-> GradeTypeOf(hs, <<>>),
         headingMatches |->
            [k \in 1..Len(hs) |->
                [textContent |-> textContent(hs[k]), level |-> hs[k].level, id |-> hs[k].id]]]

\* String(n): the decimal digits of a level, as Array.prototype.sort()
\* without a comparator sees it.
RECURSIVE String(_)
String(n) == IF n < 10 THEN <<n>> ELSE String(n \div 10) \o <<n % 10>>

\* a <= b in the order of strings.
RECURSIVE StrLeq(_, _)
StrLeq(a, b) ==
    IF a = <<>> THEN TRUE
    ELSE IF b = <<>> THEN FALSE
    ELSE IF Head(a) # Head(b) THEN Head(a) < Head(b)
    ELSE StrLeq(Tail(a), Tail(b))

\* Array.prototype.sort() without a comparator orders by the elements'
\* string forms; for the schema's levels 1..6 that is the numeric order.
RECURSIVE Insert(_, _)
Insert(s, x) ==
    IF s = <<>> THEN <<x>>
    ELSE IF StrLeq(String(x), String(Head(s))) THEN <<x>> \o s
    ELSE <<Head(s)>> \o Insert(Tail(s), x)

RECURSIVE sort(_)
sort(s) == IF s = <<>> THEN <<>> ELSE Insert(sort(Tail(s)), Head(s))

\* Array.prototype.indexOf, 0-based, -1 when absent.
indexOf(s, x) ==
    IF Member(s, x) THEN (CHOOSE k \in 1..Len(s) : s[k] = x /\ \A m \in 1..(k - 1) : s[m] # x) - 1
    ELSE -1

\* A variant of resultData whose fold test is strict: a heading followed by
\* one of its own level counts as collapsible.
resultDataStrict(gradeType, headingMatches, k) ==
    LET item == headingMatches[k]
        n == Len(headingMatches)
    IN  [textContent |-> item.textContent,
         level |-> item.level,
         id |-> item.id,
         collapseAbility |-> ~(k = n \/ (k < n /\ item.level > headingMatches[k + 1].level)),
         indentGrade |-> indexOf(gradeType, item.level) + 1]

\* The record rederToc computes for the heading at (1-based) index k.
resultData(gradeType, headingMatches, k) ==
    LET item == headingMatches[k]
        n == Len(headingMatches)
    IN  [textContent |-> item.textContent,
         level |-> item.level,
         id |-> item.id,
         collapseAbility |-> ~(k = n \/ (k < n /\ item.level >= headingMatches[k + 1].level)),
         indentGrade |-> indexOf(gradeType, item.level) + 1]

\* this.renderList after the forEach of rederToc has run over headings 1..k.
RECURSIVE RenderListAfter(_, _, _, _)
RenderListAfter(list, gradeType, headingMatches, k) ==
    IF k = 0 THEN list
    ELSE LET before == RenderListAfter(list, gradeType, headingMatches, k - 1)
             r == resultData(gradeType, headingMatches, k)
         IN  (r.id :> r) @@ before

\* The comparison of rederToc with the record kept for the same id:
\* "new" when renderList has none, else "same" or "changed" by isEqual.
isSame(list, r) ==
    IF r.id \notin DOMAIN list THEN "new"
    ELSE IF list[r.id] = r THEN "same" ELSE "changed"

\* The outcome of that comparison for every heading of one rederToc, each
\* made against the render list as the headings before it have left it.
Compared(data, list) ==
    LET g == sort(data.gradeType)
        hm == data.headingMatches
    IN  [k \in 1..Len(hm) |->
            isSame(RenderListAfter(list, g, hm, k - 1), resultData(g, hm, k))]

\* A variant of ItemDom that draws the fold indicator on every item.
ItemDomArrow(r) ==
    [id |-> r.id, level |-> r.level, collapseAbility |-> r.collapseAbility,
     indent |-> r.indentGrade,
     collapseSvg |-> ">",
     text |-> r.textContent]

\* The item element rederToc appends for one heading.
ItemDom(r) ==
    [id |-> r.id, level |-> r.level, collapseAbility |-> r.collapseAbility,
     indent |-> r.indentGrade,
     collapseSvg |-> IF r.collapseAbility THEN ">" ELSE "",
     text |-> r.textContent]

\* A variant of rederToc that starts every render from an empty render list.
rederTocFresh(data, list) ==
    LET g == sort(data.gradeType)
        hm == data.headingMatches
    IN  [data |-> [gradeType |-> g, headingMatches |-> hm],
         renderList |-> RenderListAfter([x \in {} |-> x], g, hm, Len(hm)),
         tocBody |-> [k \in 1..Len(hm) |-> ItemDom(resultData(g, hm, k))]]

\* A variant of rederToc that leaves the level set in first-seen order.
rederTocUnsorted(data, list) ==
    LET g == data.gradeType
        hm == data.headingMatches
    IN  [data |-> [gradeType |-> g, headingMatches |-> hm],
         renderList |-> RenderListAfter(list, g, hm, Len(hm)),
         tocBody |-> [k \in 1..Len(hm) |-> ItemDom(resultData(g, hm, k))]]

\* rederToc(data): the level set is sorted in place, the render list is
\* updated for every heading, and the panel body is cleared and refilled.
rederToc(data, list) ==
    LET g == sort(data.gradeType)
        hm == data.headingMatches
    IN  [data |-> [gradeType |-> g, headingMatches |-> hm],
         renderList |-> RenderListAfter(list, g, hm, Len(hm)),
         tocBody |-> [k \in 1..Len(hm) |-> ItemDom(resultData(g, hm, k))]]

\* ---- the editor: state, transactions, plugin hooks --------------------------

VARIABLES
    plugins,     \* the plugins the editor state was created with
    schema,      \* the schema the document is built from: "utils" or "main"
    options,     \* WordCount.options: [limit, limitDefined, mode], fixed at construction
    doc,         \* state.doc, the committed document
    wcState,     \* the word-count plugin's state {characters, words}
    tocState,    \* the toc plugin's state {gradeType, headingMatches}
    renderList,  \* Toc.renderList: id -> last record rendered for that id
    tocBody,     \* the children of Toc.tocBody, the outline panel
    counter,     \* the counter widget: what its text node shows
    tr,          \* the transaction being dispatched (mutated by the filter)
    trOrig,      \* that transaction as it was dispatched
    verdict,     \* what filterTransaction answered for it
    pc           \* where the dispatch is: "idle", "filter", "apply", "update"

vars == <<plugins, schema, options, doc, wcState, tocState, renderList, tocBody, counter, tr, trOrig, verdict, pc>>

\* limit: null is limitDefined = FALSE.
Null == [limitDefined |-> FALSE, limit |-> 0]

Limit(n) == [limitDefined |-> TRUE, limit |-> n]

Options(l, m) == [limitDefined |-> l.limitDefined, limit |-> l.limit, mode |-> m]

\* The configurations explored (src/src/utils.ts:468 passes {limit: 550, mode: 'textSize'}).
Configs ==
    { Options(Null, "textSize"), Options(Limit(0), "nodeSize"),
      Options(Limit(-1), "textSize"),
      Options(Limit(1), "textSize"), Options(Limit(7), "nodeSize") }

ConfigsToc == {Options(Limit(1), "textSize"), Options(Limit(7), "nodeSize")}

\* The initial documents explored (the parse of #content).
InitDocs ==
    { <<Para(<<>>)>>,
      <<Heading(2, "idA", <<"a">>), Para(<<"a", "img">>)>>,
      <<Para(<<"a", "a", "a">>), Heading(1, "idB", <<"a">>)>>,
      <<Quote(Heading(1, "idA", <<"a">>)), Heading(2, "idB", <<"img">>)>> }

\* Initial documents for the outline: three headings, and headings the
\* outline leaves out.
InitDocsOutline ==
    { <<Heading(2, "idA", <<"a">>), Heading(4, "idB", <<"a">>), Heading(2, "idC", <<"a">>)>>,
      <<Quote(Heading(1, "idA", <<"a">>)), Heading(2, "idB", <<"img">>),
        Heading(1, "idC", <<"a">>)>> }

\* Initial documents of the schema of src/src/main.tsx: attrs.id of a heading
\* is undefined.
InitDocsPlain ==
    { <<Heading(1, Undefined, <<"a">>), Heading(2, Undefined, <<"a">>)>>,
      <<Para(<<"a">>), Heading(1, Undefined, <<"a", "a">>)>> }

NoTr == [doc |-> <<>>, docChanged |-> FALSE, paste |-> FALSE, head |-> 0]

NoRender == [x \in {} |-> x]

\* The toc plugin's state in an editor created without that plugin.
NoToc == [gradeType |-> <<>>, headingMatches |-> <<>>]

\* EditorState.create: every plugin's state.init runs on the parsed document.
Create(ps, sch, configs, docs) ==
    /\ plugins = ps
    /\ schema = sch
    /\ options \in configs
    /\ doc \in docs
    /\ wcState = calcStorage(options, doc)
    /\ tocState = IF "toc" \in ps THEN updateToc(doc) ELSE NoToc
    /\ renderList = NoRender
    /\ tocBody = <<>>
    /\ counter = <<>>
    /\ tr = NoTr
    /\ trOrig = NoTr
    /\ verdict = "init"
    /\ pc = "update"

\* The editor of src/src/utils.ts:461-470: the word-count plugin alone.
Init == Create({"wordCount"}, "utils", Configs, InitDocs)

\* The editor with both plugins, the toc plugin drawing its outline panel.
InitToc == Create({"wordCount", "toc"}, "utils", ConfigsToc, InitDocs)

\* The same editor on documents with more headings.
InitOutline ==
    Create({"wordCount", "toc"}, "utils", {Options(Limit(7), "nodeSize")}, InitDocsOutline)

\* Both plugins on documents of the schema of src/src/main.tsx, whose
\* heading has the attribute level and no attribute id.
InitPlain ==
    Create({"wordCount", "toc"}, "main", {Options(Limit(7), "nodeSize")}, InitDocsPlain)

\* view.dispatch(t): the transaction enters EditorState.applyTransaction.
Dispatch(t) ==
    /\ pc = "idle"
    /\ Bounded(t.doc)
    /\ tr' = t
    /\ trOrig' = t
    /\ verdict' = "none"
    /\ pc' = "filter"
    /\ UNCHANGED <<plugins, schema, options, doc, wcState, tocState, renderList, tocBody, counter>>

Edit(d, head) == [doc |-> d, docChanged |-> TRUE, paste |-> FALSE, head |-> head]

SetBlock(node, i, b) == [node EXCEPT ![i] = b]

\* A transaction without steps: the selection moves.
SetSelection ==
    Dispatch([doc |-> doc, docChanged |-> FALSE, paste |-> FALSE, head |-> Start(doc, 1)])

\* toggleMark on a selected text (Mod-b, Mod-i): a step that leaves the
\* nodes and the text of the document as they are.
ToggleMark ==
    /\ SumLen(doc) > 0
    /\ Dispatch(Edit(doc, Start(doc, 1)))

InsertAt(c, off, ins) == Prefix(c, off) \o ins \o Suffix(c, off)

\* Typing a character.
InsertText ==
    \E i \in 1..Len(doc) :
        \E off \in 0..Len(doc[i].content) :
            Dispatch(Edit(SetBlock(doc, i, [doc[i] EXCEPT !.content = InsertAt(@, off, <<"a">>)]),
                          Start(doc, i) + off + 1))

\* Deleting one character or leaf.
DeleteAtom ==
    \E i \in 1..Len(doc) :
        \E off \in 1..Len(doc[i].content) :
            Dispatch(Edit(SetBlock(doc, i,
                                   [doc[i] EXCEPT !.content = Prefix(@, off - 1) \o Suffix(@, off)]),
                          Start(doc, i) + off - 1))

\* Deleting a whole top-level node.
DeleteBlock ==
    /\ Len(doc) > 1
    /\ \E i \in 1..Len(doc) :
          LET d == Splice(doc, i, i, <<>>)
          IN  Dispatch(Edit(d, Start(d, 1)))

\* setBlockType(heading, {level}) (Shift-Ctrl-1..6, the "# " input rule) and
\* setBlockType(paragraph): the attrs given carry no id, so a heading made
\* this way has the schema's default id.
SetBlockType ==
    \E i \in 1..Len(doc), lv \in 0..2 :
        LET b == IF lv = 0 THEN Para(doc[i].content) ELSE Heading(lv, DefaultIdOf(schema), doc[i].content)
            nb == [b EXCEPT !.quoted = doc[i].quoted]
        IN  /\ nb # doc[i]
            /\ Dispatch(Edit(SetBlock(doc, i, nb), Start(doc, i)))

\* The slices pasted: one run of inline content, or two paragraphs.
PasteSlices ==
    { <<<<"a", "a">>>>, <<<<"a", "a", "a">>>>,
      <<<<"a">>, <<"a">>>>, <<<<"a", "a">>, <<"a">>>>, <<<<"a">>, <<"a", "a">>>> }

\* The document after pasting slice at offset off of block i: a one-block
\* slice goes into the block; of a two-block slice the first part closes
\* block i and the second opens a paragraph that takes the rest of block i.
PasteDoc(node, i, off, slice) ==
    IF Len(slice) = 1
    THEN SetBlock(node, i, [node[i] EXCEPT !.content = InsertAt(@, off, slice[1])])
    ELSE Splice(node, i, i,
                <<[node[i] EXCEPT !.content = Prefix(@, off) \o slice[1]],
                  Para(slice[2] \o Suffix(node[i].content, off))>>)

\* The cursor after the paste: at the end of the pasted content.
PasteHead(node, i, off, slice) ==
    IF Len(slice) = 1
    THEN Start(node, i) + off + Len(slice[1])
    ELSE Start(PasteDoc(node, i, off, slice), i + 1) + Len(slice[2])

\* A paste, at the start or at the end of a block's content: the view tags
\* the transaction with the meta "paste".
Paste ==
    \E i \in 1..Len(doc), slice \in PasteSlices :
        \E off \in {0, Len(doc[i].content)} :
            /\ Len(slice) > 1 => ~doc[i].quoted
            /\ Dispatch([doc |-> PasteDoc(doc, i, off, slice), docChanged |-> TRUE,
                         paste |-> TRUE, head |-> PasteHead(doc, i, off, slice)])

\* A paste over a selection: the inline content of block i is selected and
\* replaced by a one-block slice, of a single character too.
PasteOver ==
    \E i \in 1..Len(doc), slice \in PasteSlices \cup {<<<<"a">>>>} :
        /\ Len(slice) = 1
        /\ doc[i].content # <<>>
        /\ Dispatch([doc |-> SetBlock(doc, i, [doc[i] EXCEPT !.content = slice[1]]),
                     docChanged |-> TRUE, paste |-> TRUE,
                     head |-> Start(doc, i) + Len(slice[1])])

\* Variants of filterTransactionByLimit, each with one slip: a strict first
\* test, a strict shrink test, growth let through, the paste test skipped,
\* the size after the trim not looked at, and a trim one position short.
filterTransactionByLimitStrict(opts, t, stateDoc) ==
    LET limit == opts.limit
        oldSize == characters(opts, stateDoc)
        newSize == characters(opts, t.doc)
        over == newSize - limit
        trimmed == deleteRange(t.doc, t.head - over, t.head)
    IN  IF newSize < limit THEN [ok |-> TRUE, doc |-> t.doc]
        ELSE IF oldSize > limit /\ newSize > limit /\ newSize <= oldSize
        THEN [ok |-> TRUE, doc |-> t.doc]
        ELSE IF oldSize > limit /\ newSize > limit /\ newSize > oldSize
        THEN [ok |-> FALSE, doc |-> t.doc]
        ELSE IF ~t.paste THEN [ok |-> FALSE, doc |-> t.doc]
        ELSE [ok |-> characters(opts, trimmed) <= limit, doc |-> trimmed]

filterTransactionByLimitShrink(opts, t, stateDoc) ==
    LET limit == opts.limit
        oldSize == characters(opts, stateDoc)
        newSize == characters(opts, t.doc)
        over == newSize - limit
        trimmed == deleteRange(t.doc, t.head - over, t.head)
    IN  IF newSize <= limit THEN [ok |-> TRUE, doc |-> t.doc]
        ELSE IF oldSize > limit /\ newSize > limit /\ newSize < oldSize
        THEN [ok |-> TRUE, doc |-> t.doc]
        ELSE IF oldSize > limit /\ newSize > limit /\ newSize > oldSize
        THEN [ok |-> FALSE, doc |-> t.doc]
        ELSE IF ~t.paste THEN [ok |-> FALSE, doc |-> t.doc]
        ELSE [ok |-> characters(opts, trimmed) <= limit, doc |-> trimmed]

filterTransactionByLimitGrow(opts, t, stateDoc) ==
    LET limit == opts.limit
        oldSize == characters(opts, stateDoc)
        newSize == characters(opts, t.doc)
        over == newSize - limit
        trimmed == deleteRange(t.doc, t.head - over, t.head)
    IN  IF newSize <= limit THEN [ok |-> TRUE, doc |-> t.doc]
        ELSE IF oldSize > limit /\ newSize > limit /\ newSize <= oldSize
        THEN [ok |-> TRUE, doc |-> t.doc]
        ELSE IF oldSize > limit /\ newSize > limit /\ newSize > oldSize
        THEN [ok |-> TRUE, doc |-> t.doc]
        ELSE IF ~t.paste THEN [ok |-> FALSE, doc |-> t.doc]
        ELSE [ok |-> characters(opts, trimmed) <= limit, doc |-> trimmed]

filterTransactionByLimitTyped(opts, t, stateDoc) ==
    LET limit == opts.limit
        oldSize == characters(opts, stateDoc)
        newSize == characters(opts, t.doc)
        over == newSize - limit
        trimmed == deleteRange(t.doc, t.head - over, t.head)
    IN  IF newSize <= limit THEN [ok |-> TRUE, doc |-> t.doc]
        ELSE IF oldSize > limit /\ newSize > limit /\ newSize <= oldSize
        THEN [ok |-> TRUE, doc |-> t.doc]
        ELSE IF oldSize > limit /\ newSize > limit /\ newSize > oldSize
        THEN [ok |-> FALSE, doc |-> t.doc]
        ELSE IF FALSE THEN [ok |-> FALSE, doc |-> t.doc]
        ELSE [ok |-> characters(opts, trimmed) <= limit, doc |-> trimmed]

filterTransactionByLimitKeep(opts, t, stateDoc) ==
    LET limit == opts.limit
        oldSize == characters(opts, stateDoc)
        newSize == characters(opts, t.doc)
        over == newSize - limit
        trimmed == deleteRange(t.doc, t.head - over, t.head)
    IN  IF newSize <= limit THEN [ok |-> TRUE, doc |-> t.doc]
        ELSE IF oldSize > limit /\ newSize > limit /\ newSize <= oldSize
        THEN [ok |-> TRUE, doc |-> t.doc]
        ELSE IF oldSize > limit /\ newSize > limit /\ newSize > oldSize
        THEN [ok |-> FALSE, doc |-> t.doc]
        ELSE IF ~t.paste THEN [ok |-> FALSE, doc |-> t.doc]
        ELSE [ok |-> TRUE, doc |-> trimmed]

filterTransactionByLimitShort(opts, t, stateDoc) ==
    LET limit == opts.limit
        oldSize == characters(opts, stateDoc)
        newSize == characters(opts, t.doc)
        over == newSize - limit
        trimmed == deleteRange(t.doc, t.head - over + 1, t.head)
    IN  IF newSize <= limit THEN [ok |-> TRUE, doc |-> t.doc]
        ELSE IF oldSize > limit /\ newSize > limit /\ newSize <= oldSize
        THEN [ok |-> TRUE, doc |-> t.doc]
        ELSE IF oldSize > limit /\ newSize > limit /\ newSize > oldSize
        THEN [ok |-> FALSE, doc |-> t.doc]
        ELSE IF ~t.paste THEN [ok |-> FALSE, doc |-> t.doc]
        ELSE [ok |-> characters(opts, trimmed) <= limit, doc |-> trimmed]

\* WordCount.filterTransactionByLimit(transaction, state): the answer and the
\* transaction's document as the call leaves it.
filterTransactionByLimit(opts, t, stateDoc) ==
    LET limit == opts.limit
        oldSize == characters(opts, stateDoc)
        newSize == characters(opts, t.doc)
        over == newSize - limit
        trimmed == deleteRange(t.doc, t.head - over, t.head)
    IN  IF newSize <= limit THEN [ok |-> TRUE, doc |-> t.doc]
        ELSE IF oldSize > limit /\ newSize > limit /\ newSize <= oldSize
        THEN [ok |-> TRUE, doc |-> t.doc]
        ELSE IF oldSize > limit /\ newSize > limit /\ newSize > oldSize
        THEN [ok |-> FALSE, doc |-> t.doc]
        ELSE IF ~t.paste THEN [ok |-> FALSE, doc |-> t.doc]
        ELSE [ok |-> characters(opts, trimmed) <= limit, doc |-> trimmed]

\* Variants of filterTransaction: an unchanged document refused, and only a
\* null limit taken as no limit.
filterTransactionNoop(opts, t, stateDoc) ==
    IF ~t.docChanged THEN [ok |-> FALSE, doc |-> t.doc]
    ELSE IF ~opts.limitDefined \/ opts.limit = 0 THEN [ok |-> TRUE, doc |-> t.doc]
    ELSE filterTransactionByLimit(opts, t, stateDoc)

filterTransactionNull(opts, t, stateDoc) ==
    IF ~t.docChanged \/ ~opts.limitDefined
    THEN [ok |-> TRUE, doc |-> t.doc]
    ELSE filterTransactionByLimit(opts, t, stateDoc)

\* The plugin's filterTransaction: !limit holds for null, undefined and 0.
filterTransaction(opts, t, stateDoc) ==
    IF ~t.docChanged \/ ~opts.limitDefined \/ opts.limit = 0
    THEN [ok |-> TRUE, doc |-> t.doc]
    ELSE filterTransactionByLimit(opts, t, stateDoc)

\* A variant of FilterTransaction in which a transaction refused after the
\* trim still reaches the state: the shortened document is committed.
FilterTransactionCommit ==
    /\ pc = "filter"
    /\ LET r == filterTransaction(options, tr, doc)
       IN  /\ tr' = [tr EXCEPT !.doc = r.doc]
           /\ verdict' = IF r.ok THEN "accept" ELSE "reject"
           /\ pc' = IF r.ok THEN "apply" ELSE "update"
           /\ doc' = IF ~r.ok /\ r.doc # tr.doc THEN r.doc ELSE doc
    /\ UNCHANGED <<plugins, schema, options, wcState, tocState, renderList, tocBody, counter, trOrig>>

\* The host asks the filter; a refused transaction is dropped.
FilterTransaction ==
    /\ pc = "filter"
    /\ LET r == filterTransaction(options, tr, doc)
       IN  /\ tr' = [tr EXCEPT !.doc = r.doc]
           /\ verdict' = IF r.ok THEN "accept" ELSE "reject"
           /\ pc' = IF r.ok THEN "apply" ELSE "update"
    /\ UNCHANGED <<plugins, schema, options, doc, wcState, tocState, renderList, tocBody, counter, trOrig>>

\* {...prev, ...next}
Spread(prev, next) ==
    [k \in DOMAIN prev \cup DOMAIN next |-> IF k \in DOMAIN next THEN next[k] ELSE prev[k]]

\* A variant of wcApply with the spread the other way round: prev wins.
wcApplyStale(opts, t, prev) == Spread(calcStorage(opts, t.doc), prev)

\* wordCountPlugin state.apply(tr, prev)
wcApply(opts, t, prev) == Spread(prev, calcStorage(opts, t.doc))

\* TocPlugin state.apply(tr, prev)
tocApply(t, prev) == Spread(prev, updateToc(t.doc))

\* The accepted transaction is applied: the new state has its document and
\* every plugin's state.apply result.
Apply ==
    /\ pc = "apply"
    /\ doc' = tr.doc
    /\ wcState' = wcApply(options, tr, wcState)
    /\ tocState' = IF "toc" \in plugins THEN tocApply(tr, tocState) ELSE tocState
    /\ pc' = "update"
    /\ UNCHANGED <<plugins, schema, options, renderList, tocBody, counter, tr, trOrig, verdict>>

\* A variant of counterWidget that shows the other number of the state.
counterWidgetWords(opts, node, state) ==
    [pos |-> ContentSize(node), characters |-> state.words,
     limitDefined |-> opts.limitDefined, limit |-> opts.limit]

\* wordCountPlugin props.decorations: the widget's text.
counterWidget(opts, node, state) ==
    [pos |-> ContentSize(node), characters |-> state.characters,
     limitDefined |-> opts.limitDefined, limit |-> opts.limit]

\* The view redraws: both plugins' widgets are built from the current state.
UpdateView ==
    /\ pc = "update"
    /\ LET r == rederToc(tocState, renderList)
       IN  IF "toc" \in plugins
           THEN /\ tocState' = r.data
                /\ renderList' = r.renderList
                /\ tocBody' = r.tocBody
           ELSE UNCHANGED <<tocState, renderList, tocBody>>
    /\ counter' = counterWidget(options, doc, wcState)
    /\ tr' = NoTr
    /\ trOrig' = NoTr
    /\ verdict' = "none"
    /\ pc' = "idle"
    /\ UNCHANGED <<plugins, schema, options, doc, wcState>>

Next ==
    \/ SetSelection
    \/ ToggleMark
    \/ InsertText
    \/ DeleteAtom
    \/ DeleteBlock
    \/ SetBlockType
    \/ Paste
    \/ PasteOver
    \/ FilterTransaction
    \/ Apply
    \/ UpdateView

Spec == Init /\ [][Next]_vars

SpecToc == InitToc /\ [][Next]_vars

SpecOutline == InitOutline /\ [][Next]_vars

SpecPlain == InitPlain /\ [][Next]_vars

\* ---- properties ---------------------------------------------------------------

\* The filter has answered and state.doc is still the pre-edit document.
Answered == pc = "apply" \/ (pc = "update" /\ verdict = "reject")

Accepted == verdict = "accept"

Rejected == verdict = "reject"

\* The pending edit is as it was dispatched.
Unmodified == tr = trOrig

oldSize == characters(options, doc)

newSize == characters(options, trOrig.doc)

\* The gatekeeper evaluates the edit: the document changed and !limit is false.
Evaluated == Answered /\ trOrig.docChanged /\ options.limitDefined /\ options.limit # 0

\* The over-limit paste path: the first four rules do not apply.
PastePath == Evaluated /\ trOrig.paste /\ oldSize <= options.limit /\ options.limit < newSize

\* C1: an evaluated edit whose post-edit size is within the limit is accepted
\* and the pending edit is left as dispatched, whatever the pre-edit size and
\* the paste tag.
C1_WithinLimitAccepted ==
    (Evaluated /\ newSize <= options.limit) => (Accepted /\ Unmodified)

C1_Witness ==
    /\ Evaluated /\ trOrig.paste /\ trOrig.doc # doc
    /\ oldSize > options.limit /\ newSize = options.limit
    /\ Accepted /\ Unmodified

\* C2: an evaluated edit with oldSize > limit, newSize > limit and
\* newSize <= oldSize is accepted unmodified, tagged paste or not.
C2_ShrinkAccepted ==
    (Evaluated /\ oldSize > options.limit /\ newSize > options.limit /\ newSize <= oldSize)
        => (Accepted /\ Unmodified)

C2_Witness ==
    /\ Evaluated /\ options.limit > 0 /\ trOrig.paste
    /\ oldSize > options.limit /\ newSize > options.limit /\ newSize < oldSize
    /\ Accepted /\ Unmodified

\* C3: an evaluated edit with oldSize > limit and newSize > oldSize is
\* rejected, and a paste in this situation is not trimmed.
C3_GrowthRejected ==
    (Evaluated /\ oldSize > options.limit /\ newSize > oldSize) => (Rejected /\ Unmodified)

C3_Witness ==
    /\ Evaluated /\ options.limit > 0 /\ trOrig.paste
    /\ oldSize > options.limit /\ newSize > oldSize
    /\ Rejected /\ Unmodified

\* C4: an evaluated edit with oldSize <= limit < newSize that is not tagged
\* paste is rejected and the pending edit is not modified.
C4_TypedRejected ==
    (Evaluated /\ oldSize <= options.limit /\ options.limit < newSize /\ ~trOrig.paste)
        => (Rejected /\ Unmodified)

C4_Witness ==
    /\ Evaluated /\ ~trOrig.paste
    /\ oldSize <= options.limit /\ options.limit < newSize
    /\ Rejected /\ Unmodified

\* C5: on the over-limit paste path the pending edit is trimmed in place and
\* the edit is accepted if and only if the size of the trimmed document is
\* within the limit.
C5_PasteDecision ==
    PastePath => /\ tr.doc # trOrig.doc
                 /\ Accepted <=> characters(options, tr.doc) <= options.limit

C5_Witness == PastePath /\ Rejected /\ characters(options, tr.doc) > options.limit

\* The block the cursor of the dispatched edit is in, and the cursor's offset in it.
HeadBlk == Resolve(trOrig.doc, trOrig.head).blk

HeadOff == Resolve(trOrig.doc, trOrig.head).off

over == newSize - options.limit

\* The dispatched document without the n atoms before offset off of block k.
WithoutAtoms(node, k, off, n) ==
    [node EXCEPT ![k].content = SubSeq(@, 1, off - n) \o SubSeq(@, off + 1, Len(@))]

\* C6 as stated: on the over-limit paste path exactly over characters are
\* removed, the resulting size is within the limit and the edit is accepted.
C6_TrimExactAlways ==
    PastePath => /\ newSize - characters(options, tr.doc) = over
                 /\ Accepted

\* C6, amended: on the over-limit paste path, when the position range
\* [cursor - over, cursor] lies inside the cursor's text block, the pending
\* edit loses exactly the over atoms before the cursor, its size becomes the
\* limit and the edit is accepted.
C6_TrimInsideBlock ==
    (PastePath /\ over <= HeadOff)
        => /\ tr.doc = WithoutAtoms(trOrig.doc, HeadBlk, HeadOff, over)
           /\ newSize - characters(options, tr.doc) = over
           /\ characters(options, tr.doc) = options.limit
           /\ Accepted

C6_Witness ==
    /\ PastePath /\ over = 2 /\ over <= HeadOff
    /\ Accepted /\ characters(options, tr.doc) = options.limit

\* C7: an edit that leaves the document as it is (no step, or a step that
\* changes no node and no text) is accepted unmodified, for every limit,
\* mode and document size.
C7_NoopAccepted ==
    (Answered /\ (~trOrig.docChanged \/ trOrig.doc = doc)) => (Accepted /\ Unmodified)

C7_Witness ==
    /\ Answered /\ ~trOrig.docChanged
    /\ options.limitDefined /\ options.limit > 0 /\ oldSize > options.limit
    /\ Accepted /\ Unmodified

\* C8 as stated: with the limit absent, 0 or negative every edit is accepted
\* unmodified.
C8_NonPositiveUnlimited ==
    (Answered /\ (~options.limitDefined \/ options.limit <= 0)) => (Accepted /\ Unmodified)

\* C8, amended: with the limit absent or 0 every edit is accepted
\* unmodified; a negative limit is enforced, so that an edit that changes
\* the document and grows it is rejected.
C8_NoLimit ==
    /\ (Answered /\ (~options.limitDefined \/ options.limit = 0)) => (Accepted /\ Unmodified)
    /\ (Answered /\ options.limitDefined /\ options.limit < 0
          /\ trOrig.docChanged /\ newSize > oldSize) => Rejected

C8_Witness ==
    /\ Answered /\ options.limitDefined /\ options.limit = 0
    /\ trOrig.paste /\ newSize > oldSize
    /\ Accepted /\ Unmodified

\* The tokens of a document's content: one per opening and closing token,
\* character and leaf.
RECURSIVE Tokens(_)
Tokens(blocks) ==
    IF blocks = <<>> THEN <<>>
    ELSE LET b == Head(blocks)
             inner == <<"open">> \o b.content \o <<"close">>
         IN  (IF b.quoted THEN <<"open">> \o inner \o <<"close">> ELSE inner)
             \o Tokens(Tail(blocks))

\* The document's own two tokens and those of its content.
StructuralSize(node) == Len(Tokens(node)) + 2

\* The number of characters of the text blocks, a leaf counting as one.
RECURSIVE FlatLen(_)
FlatLen(blocks) ==
    IF blocks = <<>> THEN 0
    ELSE Len(Head(blocks).content) + FlatLen(Tail(blocks))

\* The number of leaves of a document.
RECURSIVE Leaves(_)
Leaves(blocks) ==
    IF blocks = <<>> THEN 0
    ELSE Cardinality({k \in 1..Len(Head(blocks).content) : Head(blocks).content[k] = "img"})
         + Leaves(Tail(blocks))

\* The documents at hand: the committed one and the pending edit's.
DocsAtHand == {doc} \cup (IF pc = "idle" THEN {} ELSE {tr.doc, trOrig.doc} \ {<<>>})

\* C9 as stated: under textSize the characters are the length of the
\* flattened text with one separator between consecutive blocks, under
\* nodeSize the structural size.
C9_SizeWithSeparator ==
    \A d \in DocsAtHand :
        calcStorage(options, d).characters =
            IF options.mode = "textSize" THEN FlatLen(d) + (Len(d) - 1) ELSE StructuralSize(d)

\* C9, amended: under textSize the characters are the length of the
\* flattened text, each leaf counting as one character and nothing being
\* inserted between blocks; under nodeSize the structural size.
C9_SizeMetric ==
    \A d \in DocsAtHand :
        calcStorage(options, d).characters =
            IF options.mode = "textSize" THEN FlatLen(d) ELSE StructuralSize(d)

C9_Witness ==
    /\ options.mode = "textSize" /\ Len(doc) = 2 /\ Leaves(doc) = 1
    /\ wcState.characters = 3
    /\ wcState = calcStorage(options, doc)

Rendered == pc = "idle" /\ "toc" \in plugins

\* The headings of the toc state and their levels.
Headings == tocState.headingMatches

LevelAt(k) == Headings[k].level

LevelsRendered == [k \in 1..Len(Headings) |-> LevelAt(k)]

FlagsRendered == [k \in 1..Len(tocBody) |-> tocBody[k].collapseAbility]

TiersRendered == [k \in 1..Len(tocBody) |-> tocBody[k].indent]

\* C11 as stated: after every render a heading's collapsible flag is true
\* iff the heading is not the last one and the next heading's level is not
\* greater than its own.
C11_CollapsibleNextNotDeeper ==
    Rendered =>
        \A k \in 1..Len(Headings) :
            tocBody[k].collapseAbility
                <=> (k < Len(Headings) /\ LevelAt(k + 1) <= LevelAt(k))

\* C11 amended: after every render a heading's collapsible flag is true iff
\* the heading is not the last one and the next heading's level is greater
\* than its own; levels [2,4,2] give flags [true, false, false].
C11_CollapsibleNextDeeper ==
    Rendered =>
        /\ Len(tocBody) = Len(Headings)
        /\ \A k \in 1..Len(Headings) :
              tocBody[k].collapseAbility
                  <=> (k < Len(Headings) /\ LevelAt(k + 1) > LevelAt(k))

C11_Witness ==
    /\ Rendered
    /\ LevelsRendered = <<2, 4, 2>>
    /\ FlagsRendered = <<TRUE, FALSE, FALSE>>

\* The distinct levels of the headings of the outline.
LevelsPresent == {LevelAt(k) : k \in 1..Len(Headings)}

\* C12: after every render each heading's indent tier is the 1-based rank of
\* its level among the distinct levels of the outline's headings in ascending
\* numeric order, so it lies between 1 and the number of distinct levels and
\* equal levels have equal tiers.
C12_IndentIsRank ==
    Rendered =>
        /\ Len(tocBody) = Len(Headings)
        /\ \A k \in 1..Len(Headings) :
              /\ tocBody[k].indent = Cardinality({l \in LevelsPresent : l <= LevelAt(k)})
              /\ tocBody[k].indent \in 1..Cardinality(LevelsPresent)

C12_Witness ==
    /\ Rendered
    /\ LevelsRendered = <<2, 4, 2>>
    /\ TiersRendered = <<1, 2, 1>>

\* The characters of an inline content, leaves left out.
IsChar(a) == a # "img"

TextOnly(c) == SelectSeq(c, IsChar)

\* A direct child of the document that is a heading.
TopHeading(b) == b.type = "heading" /\ ~b.quoted

\* It holds leaves (images) and no text.
OnlyLeaves(b) == TopHeading(b) /\ b.content # <<>> /\ TextOnly(b.content) = <<>>

\* Its text, leaves contributing nothing, is non-empty.
HasText(b) == TopHeading(b) /\ TextOnly(b.content) # <<>>

RecordsOf(hs) ==
    [k \in 1..Len(hs) |->
        [textContent |-> TextOnly(hs[k].content), level |-> hs[k].level, id |-> hs[k].id]]

\* C13: the headings of the toc state are, in document order, exactly one
\* record (text, level, id) for every direct child of the document that is a
\* heading with a non-empty text; a heading inside a blockquote and a
\* heading without text (empty, or holding images only) are left out.
C13_ScopeTextContent ==
    "toc" \in plugins => Headings = RecordsOf(SelectSeq(doc, HasText))

C13_Witness ==
    /\ "toc" \in plugins /\ pc = "update" /\ Accepted /\ trOrig.docChanged
    /\ \E i \in 1..Len(doc) : OnlyLeaves(doc[i])
    /\ Len(Headings) = 1

\* The outline is about to be drawn again for the headings the panel shows:
\* what the previous render drew is, item by item, what the state holds.
SameHeadingSet ==
    /\ pc = "update" /\ "toc" \in plugins
    /\ Headings # <<>>
    /\ Len(tocBody) = Len(Headings)
    /\ \A k \in 1..Len(Headings) :
          /\ tocBody[k].id = Headings[k].id
          /\ tocBody[k].level = Headings[k].level
          /\ tocBody[k].text = Headings[k].textContent

\* C14: when the outline is rendered again with an unchanged heading set,
\* every heading's record is identical to the one renderList holds for its
\* id, so the comparison of the render classifies no heading as changed.
C14_RenderStable ==
    SameHeadingSet =>
        \A k \in 1..Len(Headings) : Compared(tocState, renderList)[k] = "same"

\* C15: no two headings of the committed document carry the same id.
C15_IdsUnique ==
    \A i, j \in 1..Len(doc) :
        (i # j /\ doc[i].type = "heading" /\ doc[j].type = "heading")
            => doc[i].id # doc[j].id

\* C19: after each render, for every heading of the rendered sequence,
\* renderList[id] is the record computed for that heading in this render.
C19_RenderListHoldsRecords ==
    Rendered =>
        \A k \in 1..Len(Headings) :
            /\ Headings[k].id \in DOMAIN renderList
            /\ renderList[Headings[k].id]
                  = resultData(tocState.gradeType, Headings, k)

\* ---- properties of the counter and of refused edits ----------------------

\* The size of a document in the configured mode.
SizeOf(d) == IF options.mode = "textSize" THEN FlatLen(d) ELSE StructuralSize(d)

\* C16: once the view is drawn the counter is one marker at the end of the
\* document that shows the characters of the word-count state and the
\* configured limit, and the count shown is the size of the committed document.
C16_CounterOverlay ==
    pc = "idle" =>
        /\ counter.pos = ContentSize(doc)
        /\ counter.characters = wcState.characters
        /\ counter.characters = SizeOf(doc)
        /\ counter.limitDefined = options.limitDefined
        /\ counter.limit = options.limit

C16_Witness ==
    /\ pc = "idle" /\ doc \notin InitDocs
    /\ options.limitDefined /\ options.limit > 0
    /\ counter.characters = options.limit
    /\ counter.pos = ContentSize(doc) /\ counter.pos > 0

\* C17: from the moment the filter refuses an edit until the view has been
\* redrawn, the committed document, the word-count state and the toc state
\* stay what they were before the edit, and the redraw leaves the counter
\* and the outline panel as they were; the pending edit may have been
\* shortened in place.
C17_RejectedNoTrace ==
    [][(verdict' = "reject" \/ verdict = "reject")
        => /\ doc' = doc /\ wcState' = wcState /\ tocState' = tocState
           /\ (verdict = "reject" => (counter' = counter /\ tocBody' = tocBody))]_vars

C17_Witness ==
    /\ "toc" \in plugins /\ pc = "update" /\ Rejected
    /\ tr # trOrig /\ tr.doc # doc
    /\ Len(Headings) >= 1

\* ---- properties of the panel and of the level set ------------------------

\* C18: after every render the panel body holds exactly one item per heading
\* of the toc state, in document order, whatever earlier renders drew, and
\* an item shows the fold indicator iff its heading is collapsible.
C18_PanelRebuilt ==
    Rendered =>
        /\ Len(tocBody) = Len(Headings)
        /\ \A k \in 1..Len(Headings) :
              /\ tocBody[k].id = Headings[k].id
              /\ tocBody[k].level = Headings[k].level
              /\ tocBody[k].text = Headings[k].textContent
              /\ (tocBody[k].collapseSvg = ">") <=> tocBody[k].collapseAbility
              /\ (tocBody[k].collapseSvg = ">")
                    <=> (k < Len(Headings) /\ LevelAt(k + 1) > LevelAt(k))

\* The panel was drawn after a heading drawn earlier has gone: the render
\* list still knows more ids than the panel shows.
C18_Witness ==
    /\ Rendered /\ doc \notin InitDocsOutline
    /\ Len(tocBody) = 2
    /\ Cardinality(DOMAIN renderList) > Len(tocBody)
    /\ tocBody[1].collapseSvg = ">" /\ tocBody[2].collapseSvg = ""

\* The first heading of the toc state with level l.
FirstAt(l) == CHOOSE k \in 1..Len(Headings) :
                 /\ LevelAt(k) = l
                 /\ \A m \in 1..(k - 1) : LevelAt(m) # l

\* The toc state is what updateToc has just returned.
Extracted == "toc" \in plugins /\ pc = "update" /\ verdict \in {"init", "accept"}

\* C20: the level set updateToc returns holds each level of the extracted
\* headings exactly once and no other level, in the order of first
\* appearance in the document.
C20_LevelSet ==
    Extracted =>
        LET g == tocState.gradeType
        IN  /\ {g[p] : p \in 1..Len(g)} = LevelsPresent
            /\ \A p, q \in 1..Len(g) : p # q => g[p] # g[q]
            /\ \A p, q \in 1..Len(g) : p < q => FirstAt(g[p]) < FirstAt(g[q])

C20_Witness ==
    /\ Extracted /\ Accepted /\ trOrig.docChanged
    /\ tocState.gradeType = <<2, 1>>
    /\ LevelsRendered = <<2, 1>>

\* ---- properties of the frame, of headings without id, of sequences ------

\* A direct child of the document that is a heading with text and whose
\* attrs carry no id.
WithoutId(b) == HasText(b) /\ b.id = Undefined

\* C22: once the outline is drawn, a top-level heading without id has been
\* skipped: no heading record, no panel item and no renderList key come
\* from it, and every other heading has its record and its item.
C22_MalformedSkipped ==
    Rendered =>
        /\ \A k \in 1..Len(Headings) : Headings[k].id # Undefined
        /\ \A k \in 1..Len(tocBody) : tocBody[k].id # Undefined
        /\ Undefined \notin DOMAIN renderList
        /\ Len(tocBody) = Len(SelectSeq(doc, HasText)) - Len(SelectSeq(doc, WithoutId))

\* The filter is about to run on an over-limit paste: the limit is enforced,
\* the pending edit changes the document and is tagged paste, and
\* oldSize <= limit < newSize.
OnPastePath ==
    /\ options.limitDefined /\ options.limit # 0
    /\ tr.docChanged /\ tr.paste
    /\ characters(options, doc) <= options.limit
    /\ options.limit < characters(options, tr.doc)

\* C21: the redraw (render, renderOverlay) leaves the committed document as
\* it is; the commit makes it the pending edit's document, the plugins'
\* apply functions (recompute, extract) not altering it; the filter leaves
\* the document and both plugin states as they are and changes the pending
\* edit only on the over-limit paste path, and then only its document.
C21_WriteFrame ==
    [][/\ pc = "update" => doc' = doc
       /\ pc = "apply" => doc' = tr.doc
       /\ pc = "filter" =>
             /\ doc' = doc /\ wcState' = wcState /\ tocState' = tocState
             /\ tr' # tr => OnPastePath
             /\ tr' = [tr EXCEPT !.doc = tr'.doc]
             /\ trOrig' = trOrig]_vars

C21_Witness ==
    /\ "toc" \in plugins /\ pc = "apply" /\ Accepted
    /\ tr.doc # trOrig.doc /\ tr.paste
    /\ doc # tr.doc

\* C23: with a positive limit no step takes the size of the committed
\* document above the limit unless it was already above and does not grow
\* (so, by induction over the steps, the size stays at most the larger of
\* the limit and the initial size), and once the size, and with it the
\* characters of the word-count state, is within the limit it stays there.
C23_LimitInvariant ==
    [][(options.limitDefined /\ options.limit > 0)
        => /\ SizeOf(doc') <= options.limit \/ SizeOf(doc') <= SizeOf(doc)
           /\ SizeOf(doc) <= options.limit => SizeOf(doc') <= options.limit
           /\ wcState.characters <= options.limit
                 => wcState'.characters <= options.limit]_vars

\* A document that started over the limit has been brought to the limit,
\* and an edit that would grow it again has been refused.
C23_Witness ==
    /\ options.limitDefined /\ options.limit > 0
    /\ pc = "update" /\ Rejected /\ trOrig.docChanged
    /\ doc \notin InitDocs
    /\ SizeOf(doc) = options.limit /\ wcState.characters = options.limit
    /\ \E d \in InitDocs : Len(d) = Len(doc) /\ SizeOf(d) > options.limit

\* The limit is enforced and the committed document is over it.
OverLimit == options.limitDefined /\ options.limit # 0 /\ SizeOf(doc) > options.limit

\* The document has nothing left to delete: one block without content.
Emptied(d) == Len(d) = 1 /\ SumLen(d) = 0

\* An answered edit that does not grow the document is accepted as dispatched.
NonGrowingAccepted == (Answered /\ newSize <= oldSize) => (Accepted /\ Unmodified)

\* C24 as stated: an edit whose post-edit size is at most its pre-edit size
\* is accepted unmodified for every limit, mode and paste tag, and an
\* over-limit document can always be shrunk back to within the limit: it is
\* never a document with nothing left to delete.
C24_CanShrinkBack ==
    /\ NonGrowingAccepted
    /\ OverLimit => ~Emptied(doc)

\* C24 amended: an edit whose post-edit size is at most its pre-edit size is
\* accepted unmodified for every limit, mode and paste tag, so a refused
\* edit always grows the document; while the editor is idle on an over-limit
\* document that has content, deleting a character is possible.  (An emptied
\* document can still be over the limit.)
C24_NonGrowingAccepted ==
    /\ NonGrowingAccepted
    /\ Rejected => newSize > oldSize
    /\ (pc = "idle" /\ OverLimit /\ SumLen(doc) > 0) => ENABLED DeleteAtom

C24_Witness ==
    /\ OverLimit /\ options.limit < 0
    /\ Answered /\ Accepted /\ Unmodified
    /\ newSize < oldSize /\ Emptied(trOrig.doc)
    /\ newSize > options.limit

\* The ids of the items the panel shows.
IdsShown(body) == {body[k].id : k \in 1..Len(body)}

\* C25: no step removes a key from renderList; the record of an id that the
\* step's render does not draw stays what it was, so a deleted heading's id
\* and last record remain; and the ids of the headings the panel shows are
\* keys of renderList.
C25_RenderListRetains ==
    [][/\ DOMAIN renderList \subseteq DOMAIN renderList'
       /\ \A id \in DOMAIN renderList :
             (pc # "update" \/ id \notin IdsShown(tocBody')) => renderList'[id] = renderList[id]
       /\ IdsShown(tocBody') \subseteq DOMAIN renderList']_vars

\* The outline has been drawn and renderList still holds the record of a
\* heading that is in the document no more.
C25_Witness ==
    /\ Rendered /\ Len(tocBody) >= 1
    /\ \E id \in DOMAIN renderList :
          /\ \A i \in 1..Len(doc) : doc[i].id # id
          /\ renderList[id].id = id
====
